---- MODULE Spec2Model ----
(***************************************************************************)
(* Model of AuthService (src/src/auth/auth.service.ts): refresh-token      *)
(* rotation over a Redis slot per user, local / OAuth user validation and  *)
(* password update over the user repository.                               *)
(*                                                                         *)
(* Every run-time string is a record with an "alg" field, so that a raw    *)
(* password, a signed JWT, a bcrypt hash and an argon2 digest are distinct *)
(* values that can be compared with one another.                           *)
(***************************************************************************)
EXTENDS Integers, Sequences, FiniteSets, TLC

\* ---- bounds -------------------------------------------------------------
MaxUsers == 2
MaxTime == 2
MaxSalt == 1
RefreshExpireSeconds == 2
MaxReq == 3

\* the user ids the callers pass
UserIds == {1, 2}
Salts == 1..MaxSalt
Emails == {"x@e", "y@e"}
Passwords == {"a", "b"}
\* the requests that can be in progress at the same time
Procs == {1, 2}

\* ---- values -------------------------------------------------------------
\* null / undefined
Null == [alg |-> "null"]

\* a plain text string (a password as typed)
Text(s) == [alg |-> "text", s |-> s]

\* jwtService.signAsync({sub}, config): the signature is a function of the
\* payload, the signing configuration and the issued-at second (iat).
SignAsync(sub, cls, iat) == [alg |-> "jwt", sub |-> sub, cls |-> cls, iat |-> iat]

\* argon2.hash(plain) with the random salt the library drew
Argon2Hash(plain, salt) == [alg |-> "argon2", salt |-> salt, plain |-> plain]

\* argon2.verify(digest, plain) rejects (throws) when the digest is not a
\* PHC-formatted string; a JWT or any other raw text is not.
Argon2Throws(digest) == digest.alg # "argon2"

Argon2Verify(digest, plain) == digest.alg = "argon2" /\ digest.plain = plain

\* a bcrypt hash of a password, as the sign-up path stores it
BcryptHash(s, salt) == [alg |-> "bcrypt", salt |-> salt, plain |-> Text(s)]

\* bcrypt.compare(data, encrypted): false when encrypted is not a bcrypt hash
BcryptCompare(data, encrypted) == encrypted.alg = "bcrypt" /\ encrypted.plain = data

\* JavaScript truthiness of user.password (null and "" are falsy)
Truthy(v) == v # Null /\ v # Text("")

\* ---- state --------------------------------------------------------------
VARIABLES
  now,      \* wall clock, in seconds
  redis,    \* redis[key]: Null or [val, exp], the value and its expiry
  users,    \* the user table: sequence of [id, email, password]
  issued,   \* issued[u]: iat of every refresh token returned for u so far
  last,     \* the last completed call: operation, arguments, outcome
  req,      \* req[p]: the request in progress in p, with its position and locals
  nreq,     \* number of requests invoked so far
  chist     \* chist[u]: the latest write that landed on the slot of u

\* the state of the requests that run step by step
cvars == <<req, nreq, chist>>

vars == <<now, redis, users, issued, last, req, nreq, chist>>

\* ---- RefreshTokenStore (Redis) ------------------------------------------
\* (mutant) one key for every user
getRefreshTokenKey_Shared(userId) == <<"userId:", 0, ":refreshToken">>

getRefreshTokenKey(userId) == <<"userId:", userId, ":refreshToken">>

RefreshKeys == {getRefreshTokenKey(u) : u \in UserIds}

\* (mutant) a key that exists keeps the expiry it has
Setex_KeepTtl(store, key, seconds, value) ==
  [store EXCEPT ![key] = [val |-> value,
                          exp |-> IF store[key] = Null THEN now + seconds
                                  ELSE store[key].exp]]

\* redis.setex(key, seconds, value)
Setex(store, key, seconds, value) ==
  [store EXCEPT ![key] = [val |-> value, exp |-> now + seconds]]

\* (mutant) the key is left in place
Del_Keep(store, key) == store

\* redis.del(key)
Del(store, key) == [store EXCEPT ![key] = Null]

\* redis.get(key)
Get(store, key) == IF store[key] = Null THEN Null ELSE store[key].val

getHashedRefreshToken(userId) == Get(redis, getRefreshTokenKey(userId))

\* ---- generateTokens -----------------------------------------------------
generateTokens(userId) ==
  [accessToken |-> SignAsync(userId, "access", now),
   refreshToken |-> SignAsync(userId, "refresh", now)]

\* every refresh token ever returned for u
IssuedTokens(u) == {SignAsync(u, "refresh", t) : t \in issued[u]}

\* the refresh token the latest login/refreshToken of u returned (iat never
\* decreases), Null when there was none
CurrentToken(u) ==
  IF issued[u] = {} THEN Null
  ELSE SignAsync(u, "refresh", CHOOSE t \in issued[u] : \A t2 \in issued[u] : t2 <= t)

\* ---- validateRefreshToken ----------------------------------------------
\* the checks of validateRefreshToken on the value read from the store
VerifyStored(hashedRefreshToken, userId, refreshToken) ==
  IF hashedRefreshToken = Null
    THEN [out |-> "Unauthorized", ret |-> Null]
  ELSE IF Argon2Throws(hashedRefreshToken)
    THEN [out |-> "TypeError", ret |-> Null]
  ELSE IF ~Argon2Verify(hashedRefreshToken, refreshToken)
    THEN [out |-> "Unauthorized", ret |-> Null]
  ELSE [out |-> "ok", ret |-> [id |-> userId]]

ValidateRefreshTokenResult(userId, refreshToken) ==
  VerifyStored(getHashedRefreshToken(userId), userId, refreshToken)

\* ---- UserRepository / UserService ------------------------------------
\* userRepository.findOneById(id)
findOneById(id) == IF id \in 1..Len(users) THEN users[id] ELSE Null

\* userRepository.findOneByEmail(email)
findOneByEmail(email) ==
  IF \E i \in 1..Len(users) : users[i].email = email
    THEN users[CHOOSE i \in 1..Len(users) :
                 /\ users[i].email = email
                 /\ \A j \in 1..Len(users) : users[j].email = email => i <= j]
    ELSE Null

\* userRepository.save(user): writes the row whose id is user.id
save(table, user) == [table EXCEPT ![user.id] = user]

\* userService.createUser(dto) on the OAuth path: a new row, next id,
\* no password
createUser(table, dto) ==
  Append(table, [id |-> Len(table) + 1, email |-> dto.email, password |-> Null])

\* ---- validateLocalUser --------------------------------------------------
\* (mutant) the result of compare is not looked at
ValidateLocalUserResult_NoCompare(email, password) ==
  LET user == findOneByEmail(email)
  IN  IF user = Null \/ ~Truthy(user.password)
        THEN [out |-> "Unauthorized", ret |-> Null]
      ELSE [out |-> "ok", ret |-> [id |-> user.id]]

ValidateLocalUserResult(email, password) ==
  LET user == findOneByEmail(email)
  IN  IF user = Null \/ ~Truthy(user.password)
        THEN [out |-> "Unauthorized", ret |-> Null]
      ELSE IF ~BcryptCompare(password, user.password)
        THEN [out |-> "Unauthorized", ret |-> Null]
      ELSE [out |-> "ok", ret |-> [id |-> user.id]]

\* ---- updatePassword -----------------------------------------------------
\* (mutant) the current password is not verified
UpdatePasswordResult_NoCurrentCheck(user, dto) ==
  IF user = Null
    THEN [out |-> "Unauthorized", why |-> "no user"]
  ELSE IF ~Truthy(user.password)
    THEN [out |-> "Unauthorized", why |-> "no password"]
  ELSE IF dto.newPassword # dto.newPasswordConfirm
    THEN [out |-> "BadRequest", why |-> "mismatch"]
  ELSE [out |-> "ok", why |-> "ok"]

\* (mutant) the new password is not compared with its confirmation
UpdatePasswordResult_NoMismatchCheck(user, dto) ==
  IF user = Null
    THEN [out |-> "Unauthorized", why |-> "no user"]
  ELSE IF ~Truthy(user.password)
    THEN [out |-> "Unauthorized", why |-> "no password"]
  ELSE IF ~BcryptCompare(dto.currentPassword, user.password)
    THEN [out |-> "Unauthorized", why |-> "wrong password"]
  ELSE [out |-> "ok", why |-> "ok"]

\* (mutant) the confirmation is compared before the current password is
\* verified
UpdatePasswordResult_MismatchFirst(user, dto) ==
  IF user = Null
    THEN [out |-> "Unauthorized", why |-> "no user"]
  ELSE IF ~Truthy(user.password)
    THEN [out |-> "Unauthorized", why |-> "no password"]
  ELSE IF dto.newPassword # dto.newPasswordConfirm
    THEN [out |-> "BadRequest", why |-> "mismatch"]
  ELSE IF ~BcryptCompare(dto.currentPassword, user.password)
    THEN [out |-> "Unauthorized", why |-> "wrong password"]
  ELSE [out |-> "ok", why |-> "ok"]

\* the checks of updatePassword, in the order of the code
UpdatePasswordResult(user, dto) ==
  IF user = Null
    THEN [out |-> "Unauthorized", why |-> "no user"]
  ELSE IF ~Truthy(user.password)
    THEN [out |-> "Unauthorized", why |-> "no password"]
  ELSE IF ~BcryptCompare(dto.currentPassword, user.password)
    THEN [out |-> "Unauthorized", why |-> "wrong password"]
  ELSE IF dto.newPassword # dto.newPasswordConfirm
    THEN [out |-> "BadRequest", why |-> "mismatch"]
  ELSE [out |-> "ok", why |-> "ok"]

\* user.password = dto.newPassword
NewPasswordField(dto) == dto.newPassword

UpdatePasswordDtos ==
  [currentPassword : {Text(s) : s \in Passwords},
   newPassword : {Text(s) : s \in Passwords},
   newPasswordConfirm : {Text(s) : s \in Passwords}]

\* ---- requests in progress -----------------------------------------------
\* no request: the slot of a process before its first request
Idle ==
  [op |-> "idle", uid |-> 0, id |-> 0, pc |-> "done", arg |-> Null, tok |-> Null,
   hash |-> Null, ret |-> Null, out |-> "ok", conc |-> 0]

\* ---- initial state ------------------------------------------------------
\* rows the sign-up path has created before the service is used
LocalUsers == {<<[id |-> 1, email |-> "x@e", password |-> BcryptHash("a", 1)]>>}

Init ==
  /\ now = 0
  /\ redis = [k \in RefreshKeys |-> Null]
  /\ users \in {<<>>} \cup LocalUsers
  /\ issued = [u \in UserIds |-> {}]
  /\ last = [op |-> "init", uid |-> 0, arg |-> Null, out |-> "ok",
             ret |-> Null, saved |-> FALSE]
  /\ req = [p \in Procs |-> Idle]
  /\ nreq = 0
  /\ chist = [u \in UserIds |-> [writer |-> 0, kind |-> "none"]]

\* ---- operations ---------------------------------------------------------
Done(op, uid, arg, out, ret, saved) ==
  /\ last' = [op |-> op, uid |-> uid, arg |-> arg, out |-> out, ret |-> ret,
              saved |-> saved]
  /\ UNCHANGED cvars

\* (mutant) the refresh token is stored as it is, without argon2.hash
IssueAndStore_Raw(userId, tokens, salt) ==
  /\ redis' = Setex(redis, getRefreshTokenKey(userId), RefreshExpireSeconds,
                    tokens.refreshToken)
  /\ issued' = [issued EXCEPT ![userId] = @ \cup {tokens.refreshToken.iat}]

\* the hash + setex sequence of login and of refreshToken, which are the same
IssueAndStore(userId, tokens, salt) ==
  /\ redis' = Setex(redis, getRefreshTokenKey(userId), RefreshExpireSeconds,
                    Argon2Hash(tokens.refreshToken, salt))
  /\ issued' = [issued EXCEPT ![userId] = @ \cup {tokens.refreshToken.iat}]

login(userId) ==
  \E salt \in Salts :
    LET tokens == generateTokens(userId)
    IN  /\ IssueAndStore(userId, tokens, salt)
        /\ Done("login", userId, Null, "ok",
                [id |-> userId, accessToken |-> tokens.accessToken,
                 refreshToken |-> tokens.refreshToken], FALSE)
        /\ UNCHANGED <<now, users>>

\* (mutant) a new pair is issued only over a session that exists
refreshToken_RequiresSession(userId) ==
  \E salt \in Salts :
    LET tokens == generateTokens(userId)
    IN  IF getHashedRefreshToken(userId) = Null
          THEN /\ Done("refreshToken", userId, Null, "Unauthorized", Null, FALSE)
               /\ UNCHANGED <<now, redis, users, issued>>
          ELSE /\ IssueAndStore(userId, tokens, salt)
               /\ Done("refreshToken", userId, Null, "ok",
                       [accessToken |-> tokens.accessToken,
                        refreshToken |-> tokens.refreshToken], FALSE)
               /\ UNCHANGED <<now, users>>

refreshToken(userId) ==
  \E salt \in Salts :
    LET tokens == generateTokens(userId)
    IN  /\ IssueAndStore(userId, tokens, salt)
        /\ Done("refreshToken", userId, Null, "ok",
                [accessToken |-> tokens.accessToken,
                 refreshToken |-> tokens.refreshToken], FALSE)
        /\ UNCHANGED <<now, users>>

logout(userId) ==
  /\ redis' = Del(redis, getRefreshTokenKey(userId))
  /\ Done("logout", userId, Null, "ok", Null, FALSE)
  /\ UNCHANGED <<now, users, issued>>

\* what a caller can pass as hashedRefreshToken: the digest of a refresh
\* token of the user, or the refresh token itself
HashedRefreshTokenArgs(userId) ==
  IssuedTokens(userId) \cup {Argon2Hash(r, s) : r \in IssuedTokens(userId), s \in Salts}

updateHashedRefreshToken(userId, hashedRefreshToken) ==
  /\ redis' = Setex(redis, getRefreshTokenKey(userId), RefreshExpireSeconds,
                    hashedRefreshToken)
  /\ Done("updateHashedRefreshToken", userId, hashedRefreshToken, "ok", Null,
          FALSE)
  /\ UNCHANGED <<now, users, issued>>

\* (mutant) a token that passes is used up: the key is deleted
validateRefreshToken_Consume(userId, token) ==
  LET r == ValidateRefreshTokenResult(userId, token)
  IN  /\ Done("validateRefreshToken", userId, token, r.out, r.ret, FALSE)
      /\ redis' = IF r.out = "ok" THEN Del(redis, getRefreshTokenKey(userId))
                  ELSE redis
      /\ UNCHANGED <<now, users, issued>>

validateRefreshToken(userId, token) ==
  LET r == ValidateRefreshTokenResult(userId, token)
  IN  /\ Done("validateRefreshToken", userId, token, r.out, r.ret, FALSE)
      /\ UNCHANGED <<now, redis, users, issued>>

\* generateTokens and getHashedRefreshToken called on their own
callGenerateTokens(userId) ==
  /\ Done("generateTokens", userId, Null, "ok", generateTokens(userId), FALSE)
  /\ UNCHANGED <<now, redis, users, issued>>

callGetHashedRefreshToken(userId) ==
  /\ Done("getHashedRefreshToken", userId, Null, "ok",
          [value |-> getHashedRefreshToken(userId)], FALSE)
  /\ UNCHANGED <<now, redis, users, issued>>

validateLocalUser(email, password) ==
  LET r == ValidateLocalUserResult(email, password)
  IN  /\ Done("validateLocalUser", 0, [email |-> email, password |-> password],
              r.out, r.ret, FALSE)
      /\ UNCHANGED <<now, redis, users, issued>>

\* (mutant) the row is created whether or not the email is known
validateOAuthUser_AlwaysCreate(dto) ==
  /\ Len(users) < MaxUsers
  /\ users' = createUser(users, dto)
  /\ Done("validateOAuthUser", 0, dto, "ok", users'[Len(users')], FALSE)
  /\ UNCHANGED <<now, redis, issued>>

validateOAuthUser(dto) ==
  LET user == findOneByEmail(dto.email)
  IN  /\ user = Null => Len(users) < MaxUsers
      /\ users' = IF user # Null THEN users ELSE createUser(users, dto)
      /\ Done("validateOAuthUser", 0, dto, "ok",
              IF user # Null THEN user ELSE users'[Len(users')], FALSE)
      /\ UNCHANGED <<now, redis, issued>>

updatePassword(userId, dto) ==
  LET user == findOneById(userId)
      r == UpdatePasswordResult(user, dto)
  IN  /\ users' = IF r.out = "ok"
                    THEN save(users, [user EXCEPT !.password = NewPasswordField(dto)])
                    ELSE users
      /\ Done("updatePassword", userId, dto, r.out, [why |-> r.why], r.out = "ok")
      /\ UNCHANGED <<now, redis, issued>>

\* one second passes; Redis drops the keys whose expiry has come
Tick ==
  /\ now < MaxTime
  /\ now' = now + 1
  /\ redis' = [k \in RefreshKeys |->
                 IF redis[k] # Null /\ redis[k].exp <= now + 1 THEN Null ELSE redis[k]]
  /\ Done("tick", 0, Null, "ok", Null, FALSE)
  /\ UNCHANGED <<users, issued>>

\* what a caller can present as refresh token: one that was returned for the
\* user, or a string that never was
Forged == Text("forged")

RefreshTokenArgs(userId) == IssuedTokens(userId) \cup {Forged}

\* ---- calls in progress ---------------------------------------------------
\* Every await of a method is a point where another call may run. req[p] is
\* the call that p has made last: op and uid, its number id in the order of
\* invocation, pc the await it stands before, arg its argument, tok and hash
\* its locals, out and ret what it gave back, conc the number of the call of
\* the other process that was in progress when it was invoked (0 if none).
\* chist[u] is the latest write that landed on the slot of u: the number of
\* the call that made it and its kind ("put" or "del").
ConcUser == 1

Other(p) == CHOOSE q \in Procs : q # p

InProgress(p) == req[p].pc # "done"

Invoke(p, op, userId, arg, pc) ==
  /\ ~InProgress(p)
  /\ nreq < MaxReq
  /\ nreq' = nreq + 1
  /\ req' = [req EXCEPT ![p] =
               [op |-> op, uid |-> userId, id |-> nreq + 1, pc |-> pc,
                arg |-> arg, tok |-> Null, hash |-> Null, ret |-> Null,
                out |-> "pending",
                conc |-> IF InProgress(Other(p)) THEN req[Other(p)].id ELSE 0]]
  /\ UNCHANGED <<now, redis, users, issued, last, chist>>

\* a call of login or of refreshToken starts
invokeIssue(p, op, userId) ==
  /\ op \in {"login", "refreshToken"}
  /\ Invoke(p, op, userId, Null, "sign")

\* a rotation request starts: validateRefreshToken(u, r), then refreshToken(u)
invokeRotation(p, userId, token) ==
  Invoke(p, "rotation", userId, token, "validate")

invokeLogout(p, userId) == Invoke(p, "logout", userId, Null, "del")

\* (mutant) the guard lets every request through
validateStep_NoGuard(p) ==
  /\ req[p].pc = "validate"
  /\ req' = [req EXCEPT ![p] = [@ EXCEPT !.pc = "sign"]]
  /\ UNCHANGED <<now, redis, users, issued, last, nreq, chist>>

\* the guard of a rotation request: the slot is read and compared
validateStep(p) ==
  /\ req[p].pc = "validate"
  /\ LET r == ValidateRefreshTokenResult(req[p].uid, req[p].arg)
     IN  req' = [req EXCEPT ![p] =
                   IF r.out = "ok" THEN [@ EXCEPT !.pc = "sign"]
                   ELSE [@ EXCEPT !.pc = "done", !.out = r.out]]
  /\ UNCHANGED <<now, redis, users, issued, last, nreq, chist>>

\* await this.generateTokens(userId), then await argon2.hash(refreshToken):
\* neither reads or writes the store, so the two are one step. argon2 draws
\* a salt of its own for every call: the number of the call stands for it.
signStep(p) ==
  /\ req[p].pc = "sign"
  /\ LET tokens == generateTokens(req[p].uid)
     IN  req' = [req EXCEPT ![p] =
                   [@ EXCEPT !.pc = "setex", !.tok = tokens,
                             !.hash = Argon2Hash(tokens.refreshToken, req[p].id)]]
  /\ UNCHANGED <<now, redis, users, issued, last, nreq, chist>>

\* await this.redis.setex(...) and the return of the pair
setexStep(p) ==
  /\ req[p].pc = "setex"
  /\ redis' = Setex(redis, getRefreshTokenKey(req[p].uid), RefreshExpireSeconds,
                    req[p].hash)
  /\ issued' = [issued EXCEPT ![req[p].uid] = @ \cup {req[p].tok.refreshToken.iat}]
  /\ req' = [req EXCEPT ![p] =
               [@ EXCEPT !.pc = "done", !.out = "ok", !.ret = req[p].tok]]
  /\ chist' = [chist EXCEPT ![req[p].uid] = [writer |-> req[p].id, kind |-> "put"]]
  /\ UNCHANGED <<now, users, last, nreq>>

\* (mutant) the write lands and the call fails all the same
failStep_Written(p) ==
  /\ req[p].pc \in {"sign", "setex"}
  /\ req' = [req EXCEPT ![p] =
               [@ EXCEPT !.pc = "done", !.out = "InternalError", !.ret = Null]]
  /\ redis' = IF req[p].pc = "setex"
                THEN Setex(redis, getRefreshTokenKey(req[p].uid),
                           RefreshExpireSeconds, req[p].hash)
                ELSE redis
  /\ UNCHANGED <<now, users, issued, last, nreq, chist>>

\* the await the call stands before rejects (signAsync, argon2.hash or
\* redis.setex): the method throws there, nothing after it runs
failStep(p) ==
  /\ req[p].pc \in {"sign", "setex"}
  /\ req' = [req EXCEPT ![p] =
               [@ EXCEPT !.pc = "done", !.out = "InternalError", !.ret = Null]]
  /\ UNCHANGED <<now, redis, users, issued, last, nreq, chist>>

\* (mutant) logout returns without the key being deleted
delStep_Keep(p) ==
  /\ req[p].pc = "del"
  /\ req' = [req EXCEPT ![p] = [@ EXCEPT !.pc = "done", !.out = "ok"]]
  /\ chist' = [chist EXCEPT ![req[p].uid] = [writer |-> req[p].id, kind |-> "del"]]
  /\ UNCHANGED <<now, redis, users, issued, last, nreq>>

\* await this.redis.del(key) of logout
delStep(p) ==
  /\ req[p].pc = "del"
  /\ redis' = Del(redis, getRefreshTokenKey(req[p].uid))
  /\ req' = [req EXCEPT ![p] = [@ EXCEPT !.pc = "done", !.out = "ok"]]
  /\ chist' = [chist EXCEPT ![req[p].uid] = [writer |-> req[p].id, kind |-> "del"]]
  /\ UNCHANGED <<now, users, issued, last, nreq>>

\* calls of one user that interleave at their awaits
NextConc ==
  \/ \E p \in Procs : \E op \in {"login", "refreshToken"} :
       invokeIssue(p, op, ConcUser)
  \/ \E p \in Procs : \E r \in IssuedTokens(ConcUser) :
       invokeRotation(p, ConcUser, r)
  \/ \E p \in Procs : invokeLogout(p, ConcUser)
  \/ \E p \in Procs : validateStep(p)
  \/ \E p \in Procs : signStep(p)
  \/ \E p \in Procs : setexStep(p)
  \/ \E p \in Procs : failStep(p)
  \/ \E p \in Procs : delStep(p)
  \/ Tick

InitConc == Init /\ users = <<>>

SpecConc == InitConc /\ [][NextConc]_vars

\* ---- validateOAuthUser, call by call ------------------------------------
invokeOAuth(p, dto) == Invoke(p, "validateOAuthUser", 0, dto, "find")

\* await this.userRepository.findOneByEmail(dto.email); if (user) return user
findStep(p) ==
  /\ req[p].pc = "find"
  /\ LET user == findOneByEmail(req[p].arg.email)
     IN  req' = [req EXCEPT ![p] =
                   IF user # Null
                     THEN [@ EXCEPT !.pc = "done", !.out = "ok", !.ret = user]
                     ELSE [@ EXCEPT !.pc = "create"]]
  /\ UNCHANGED <<now, redis, users, issued, last, nreq, chist>>

\* return await this.userService.createUser(dto): the row is inserted
createStep(p) ==
  /\ req[p].pc = "create"
  /\ Len(users) < MaxUsers
  /\ users' = createUser(users, req[p].arg)
  /\ req' = [req EXCEPT ![p] =
               [@ EXCEPT !.pc = "done", !.out = "ok", !.ret = users'[Len(users')]]]
  /\ UNCHANGED <<now, redis, issued, last, nreq, chist>>

\* createUser over a table that refuses a second row with the same email:
\* the insert is rejected and the call throws
createConflictStep(p) ==
  /\ req[p].pc = "create"
  /\ findOneByEmail(req[p].arg.email) # Null
  /\ req' = [req EXCEPT ![p] =
               [@ EXCEPT !.pc = "done", !.out = "Conflict", !.ret = Null]]
  /\ UNCHANGED <<now, redis, users, issued, last, nreq, chist>>

NextOAuth ==
  \/ \E p \in Procs : \E e \in Emails : invokeOAuth(p, [email |-> e])
  \/ \E p \in Procs : findStep(p)
  \/ \E p \in Procs : createStep(p)
  \/ \E p \in Procs : createConflictStep(p)

SpecOAuth == Init /\ [][NextOAuth]_vars

\* The session operations and the user operations read and write disjoint
\* parts of the state (redis and issued against users), so each group
\* is also checked on its own.
Next ==
  \/ \E u \in UserIds : login(u)
  \/ \E u \in UserIds : refreshToken(u)
  \/ \E u \in UserIds : logout(u)
  \/ \E u \in UserIds : \E h \in HashedRefreshTokenArgs(u) :
       updateHashedRefreshToken(u, h)
  \/ \E u \in UserIds : \E r \in RefreshTokenArgs(u) : validateRefreshToken(u, r)
  \/ \E e \in Emails : \E p \in Passwords : validateLocalUser(e, Text(p))
  \/ \E e \in Emails : validateOAuthUser([email |-> e])
  \/ \E u \in UserIds : \E dto \in UpdatePasswordDtos : updatePassword(u, dto)
  \/ \E u \in UserIds : callGenerateTokens(u)
  \/ \E u \in UserIds : callGetHashedRefreshToken(u)
  \/ Tick

Spec == Init /\ [][Next]_vars

\* the session operations alone
NextSession ==
  \/ \E u \in UserIds : login(u)
  \/ \E u \in UserIds : refreshToken(u)
  \/ \E u \in UserIds : logout(u)
  \/ \E u \in UserIds : \E h \in HashedRefreshTokenArgs(u) :
       updateHashedRefreshToken(u, h)
  \/ \E u \in UserIds : \E r \in RefreshTokenArgs(u) : validateRefreshToken(u, r)
  \/ Tick

SpecSession == Init /\ [][NextSession]_vars

\* login, refreshToken and logout only (with the read-only validation)
NextRotation ==
  \/ \E u \in UserIds : login(u)
  \/ \E u \in UserIds : refreshToken(u)
  \/ \E u \in UserIds : logout(u)
  \/ \E u \in UserIds : \E r \in RefreshTokenArgs(u) : validateRefreshToken(u, r)
  \/ Tick

SpecRotation == Init /\ [][NextRotation]_vars

\* the user operations alone
NextUsers ==
  \/ \E e \in Emails : \E p \in Passwords : validateLocalUser(e, Text(p))
  \/ \E e \in Emails : validateOAuthUser([email |-> e])
  \/ \E u \in UserIds : \E dto \in UpdatePasswordDtos : updatePassword(u, dto)

SpecUsers == Init /\ [][NextUsers]_vars

\* the session of one user next to the user operations
FrameUser == 1

NextFrame ==
  \/ login(FrameUser)
  \/ refreshToken(FrameUser)
  \/ logout(FrameUser)
  \/ \E h \in HashedRefreshTokenArgs(FrameUser) :
       updateHashedRefreshToken(FrameUser, h)
  \/ \E r \in RefreshTokenArgs(FrameUser) : validateRefreshToken(FrameUser, r)
  \/ callGenerateTokens(FrameUser)
  \/ callGetHashedRefreshToken(FrameUser)
  \/ \E e \in Emails : \E p \in Passwords : validateLocalUser(e, Text(p))
  \/ \E e \in Emails : validateOAuthUser([email |-> e])
  \/ \E u \in UserIds : \E dto \in UpdatePasswordDtos : updatePassword(u, dto)
  \/ Tick

SpecFrame == Init /\ [][NextFrame]_vars

\* every digest the store holds at the moment, of whichever user
StoredHashes ==
  {redis[k].val : k \in {k2 \in RefreshKeys : redis[k2] # Null}}

\* the refresh tokens the other users hold
OthersTokens(userId) ==
  {CurrentToken(u) : u \in {u2 \in UserIds \ {userId} : issued[u2] # {}}}

\* the session operations with arguments that come from any user: a digest
\* read from any slot, the refresh token another user holds
NextIsolation ==
  \/ \E u \in UserIds : login(u)
  \/ \E u \in UserIds : refreshToken(u)
  \/ \E u \in UserIds : logout(u)
  \/ \E u \in UserIds : \E h \in StoredHashes : updateHashedRefreshToken(u, h)
  \/ \E u \in UserIds : \E r \in OthersTokens(u) : validateRefreshToken(u, r)
  \/ Tick

SpecIsolation == Init /\ [][NextIsolation]_vars

\* ==== properties of the refresh session ==================================
\* what validateRefreshToken(u, r) answers once the step has been taken
ValidateAfter(u, r) == VerifyStored(Get(redis', getRefreshTokenKey(u)), u, r)

\* no refresh token ever returned for u passes, and the slot of u is absent
NoSession(u) ==
  /\ getHashedRefreshToken(u) = Null
  /\ \A r \in IssuedTokens(u) : ValidateRefreshTokenResult(u, r).out = "Unauthorized"

\* C1 (as claimed): rotation invalidation. When refreshToken(u) directly
\* follows the login(u) or refreshToken(u) that returned r_old, and returns
\* r_new, then validateRefreshToken(u, r_old) fails with Unauthorized and
\* validateRefreshToken(u, r_new) returns {id: u}.
C1_RotationInvalidation ==
  [][\A u \in UserIds :
       (/\ last.op \in {"login", "refreshToken"} /\ last.uid = u
        /\ last'.op = "refreshToken" /\ last'.uid = u)
       => /\ ValidateAfter(u, last.ret.refreshToken).out = "Unauthorized"
          /\ ValidateAfter(u, last'.ret.refreshToken) = [out |-> "ok", ret |-> [id |-> u]]
    ]_vars

\* C2 (as claimed): logout invalidation. Once logout(u) has completed and no
\* login(u) or refreshToken(u) has run since, every refresh token returned
\* for u fails validateRefreshToken with Unauthorized and
\* getHashedRefreshToken(u) is absent. Stated for the state logout(u) leaves
\* and for the state after one further call that is neither login(u) nor
\* refreshToken(u).
C2_LogoutInvalidation_AsClaimed ==
  /\ [](\A u \in UserIds : (last.op = "logout" /\ last.uid = u) => NoSession(u))
  /\ [][\A u \in UserIds :
          (/\ last.op = "logout" /\ last.uid = u
           /\ ~(last'.uid = u /\ last'.op \in {"login", "refreshToken"}))
          => NoSession(u)'
       ]_vars

\* C2 (amended): logout invalidation. Right after logout(u) no refresh token
\* of u passes validateRefreshToken and the slot of u is absent, and this
\* stays so through every step that is not a login, refreshToken or
\* updateHashedRefreshToken of u.
C2_LogoutInvalidation ==
  /\ [](\A u \in UserIds : (last.op = "logout" /\ last.uid = u) => NoSession(u))
  /\ [][\A u \in UserIds :
          (/\ NoSession(u)
           /\ ~(/\ last'.uid = u
                /\ last'.op \in {"login", "refreshToken", "updateHashedRefreshToken"}))
          => NoSession(u)'
       ]_vars

C2_Witness ==
  /\ last.op = "logout"
  /\ issued[last.uid] # {}
  /\ \A r \in IssuedTokens(last.uid) :
       ValidateRefreshTokenResult(last.uid, r).out = "Unauthorized"

\* C3 (as claimed): single active refresh session. After any sequence of
\* login, refreshToken and logout calls at most one refresh token ever
\* returned for u passes validateRefreshToken(u, .), namely the one the latest
\* login(u)/refreshToken(u) returned, and a new login(u) invalidates every
\* refresh token returned for u before it.
C3_SingleActiveSession ==
  /\ [](\A u \in UserIds :
          {r \in IssuedTokens(u) : ValidateRefreshTokenResult(u, r).out = "ok"}
            \subseteq {CurrentToken(u)})
  /\ [][\A u \in UserIds :
          (last'.op = "login" /\ last'.uid = u)
          => \A r \in IssuedTokens(u) : ValidateAfter(u, r).out # "ok"
       ]_vars

\* C5 (as claimed): stored value is a hash. In every reachable state the
\* value in the slot of any user is an argon2 digest of a refresh token,
\* never a raw refresh token.
C5_StoredValueIsHash_AsClaimed ==
  \A k \in RefreshKeys :
    redis[k] # Null => (redis[k].val.alg = "argon2" /\ redis[k].val.plain.alg = "jwt")

\* C5 (amended): stored value. Right after login(u) or refreshToken(u) the
\* slot of u holds an argon2 digest of the refresh token just returned and not
\* that token itself; updateHashedRefreshToken(u, v) stores v exactly as it
\* was given.
C5_StoredValue ==
  \A u \in UserIds :
    /\ (last.op \in {"login", "refreshToken"} /\ last.uid = u)
       => /\ getHashedRefreshToken(u) # last.ret.refreshToken
          /\ \E s \in Salts :
               getHashedRefreshToken(u) = Argon2Hash(last.ret.refreshToken, s)
    /\ (last.op = "updateHashedRefreshToken" /\ last.uid = u)
       => getHashedRefreshToken(u) = last.arg

C5_Witness ==
  /\ last.op = "refreshToken"
  /\ getHashedRefreshToken(last.uid).alg = "argon2"
  /\ getHashedRefreshToken(last.uid).plain = last.ret.refreshToken

\* C9 (as claimed): outcomes of validateRefreshToken. validateRefreshToken(u, r)
\* fails with Unauthorized when the slot of u is absent, fails with
\* Unauthorized when the slot holds a value r does not verify against, returns
\* {id: u} when r verifies, and has no other outcome.
C9_ThreeOutcomes ==
  last.op = "validateRefreshToken" =>
    LET h == getHashedRefreshToken(last.uid)
    IN  /\ last.out \in {"Unauthorized", "ok"}
        /\ h = Null => last.out = "Unauthorized"
        /\ (h # Null /\ ~Argon2Verify(h, last.arg)) => last.out = "Unauthorized"
        /\ (h # Null /\ Argon2Verify(h, last.arg))
             => (last.out = "ok" /\ last.ret = [id |-> last.uid])

\* ==== properties of the user operations ==================================
\* the rows of the user table with this email
RowsWithEmail(email) == {i \in 1..Len(users) : users[i].email = email}

\* C4 (as claimed): the new password is hashed. After a successful
\* updatePassword(u, dto) the stored password of u is a bcrypt hash of
\* dto.newPassword and not dto.newPassword itself, validateLocalUser with the
\* new password returns {id: u}, and the new password passes the
\* current-password check of a further updatePassword.
C4_NewPasswordHashed ==
  (last.op = "updatePassword" /\ last.out = "ok") =>
    LET user == users[last.uid]
    IN  /\ user.password # last.arg.newPassword
        /\ BcryptCompare(last.arg.newPassword, user.password)
        /\ ValidateLocalUserResult(user.email, last.arg.newPassword)
             = [out |-> "ok", ret |-> [id |-> last.uid]]
        /\ UpdatePasswordResult(user,
             [currentPassword |-> last.arg.newPassword,
              newPassword |-> last.arg.newPassword,
              newPasswordConfirm |-> last.arg.newPassword]).out = "ok"

\* C6: password-change guard. updatePassword(u, dto) on an existing user with
\* a password, with a dto.currentPassword that does not verify against the
\* stored password, fails with Unauthorized, does not call save and leaves
\* the user table as it was, whatever the new passwords are.
C6_PasswordChangeGuard ==
  [][\A u \in UserIds :
       (/\ last'.op = "updatePassword" /\ last'.uid = u
        /\ u \in 1..Len(users)
        /\ Truthy(users[u].password)
        /\ ~BcryptCompare(last'.arg.currentPassword, users[u].password))
       => (last'.out = "Unauthorized" /\ ~last'.saved /\ users' = users)
    ]_vars

C6_Witness ==
  /\ last.op = "updatePassword"
  /\ last.out = "Unauthorized"
  /\ last.ret.why = "wrong password"
  /\ last.arg.newPassword = last.arg.newPasswordConfirm

\* C7 (as claimed): mismatch rejection. updatePassword(u, dto) with
\* dto.newPassword different from dto.newPasswordConfirm fails with
\* BadRequest, without a save.
C7_MismatchRejection_AsClaimed ==
  (/\ last.op = "updatePassword"
   /\ last.arg.newPassword # last.arg.newPasswordConfirm)
  => (last.out = "BadRequest" /\ ~last.saved)

\* C7 (amended): mismatch rejection. updatePassword(u, dto) with
\* dto.newPassword different from dto.newPasswordConfirm always fails without
\* a save and leaves the user table as it was; the failure is BadRequest when
\* u exists, has a password and dto.currentPassword verifies against it, and
\* Unauthorized otherwise.
C7_MismatchRejection ==
  [][\A u \in UserIds :
       (/\ last'.op = "updatePassword" /\ last'.uid = u
        /\ last'.arg.newPassword # last'.arg.newPasswordConfirm)
       => /\ ~last'.saved
          /\ users' = users
          /\ last'.out =
               IF /\ u \in 1..Len(users)
                  /\ Truthy(users[u].password)
                  /\ BcryptCompare(last'.arg.currentPassword, users[u].password)
               THEN "BadRequest" ELSE "Unauthorized"
    ]_vars

C7_Witness ==
  /\ last.op = "updatePassword"
  /\ last.out = "BadRequest"
  /\ last.arg.newPassword # last.arg.newPasswordConfirm

\* C8: OAuth idempotence. After validateOAuthUser(email) exactly one row has
\* that email and it is the one returned; a call for an email that is already
\* there (as after a first call) returns that row, with the same id, and
\* creates nothing; a call for an unknown email creates one row, which has no
\* password.
C8_OAuthIdempotence ==
  /\ [](last.op = "validateOAuthUser" =>
          /\ RowsWithEmail(last.arg.email) = {last.ret.id}
          /\ users[last.ret.id] = last.ret)
  /\ [][last'.op = "validateOAuthUser" =>
          IF RowsWithEmail(last'.arg.email) # {}
            THEN /\ users' = users
                 /\ last'.ret.id \in RowsWithEmail(last'.arg.email)
                 /\ (last.op = "validateOAuthUser" /\ last.arg.email = last'.arg.email)
                      => last'.ret.id = last.ret.id
            ELSE /\ Len(users') = Len(users) + 1
                 /\ last'.ret.password = Null
       ]_vars

C8_Witness ==
  /\ last.op = "validateOAuthUser"
  /\ last.ret.password = Null
  /\ Len(users) = 2
  /\ RowsWithEmail(last.arg.email) = {last.ret.id}

\* C10: an identity without a password passes no password flow.
\* validateLocalUser(email, p) returns {id} only when a row with that email
\* exists, has a password hash and p verifies against it, and otherwise fails
\* with Unauthorized; updatePassword on a row without a password fails with
\* Unauthorized and leaves the row without a password.
C10_NoPasswordFlowForOAuth ==
  /\ [](last.op = "validateLocalUser" =>
          /\ last.out \in {"ok", "Unauthorized"}
          /\ last.out = "ok" =>
               /\ last.ret.id \in RowsWithEmail(last.arg.email)
               /\ users[last.ret.id].password.alg = "bcrypt"
               /\ users[last.ret.id].password.plain = last.arg.password
          /\ (\E i \in RowsWithEmail(last.arg.email) : users[i].password = Null)
               => last.out = "Unauthorized")
  /\ [][\A u \in UserIds :
          (/\ last'.op = "updatePassword" /\ last'.uid = u
           /\ u \in 1..Len(users)
           /\ users[u].password = Null)
          => (last'.out = "Unauthorized" /\ users'[u].password = Null)
       ]_vars

C10_Witness ==
  /\ last.op = "validateLocalUser"
  /\ \E i \in RowsWithEmail(last.arg.email) : users[i].password = Null
  /\ last.out = "Unauthorized"

\* C14: order of the checks of updatePassword. The first failing check, in the
\* order identity absent, no password, currentPassword not verifying,
\* newPassword different from newPasswordConfirm, decides the outcome
\* (Unauthorized for the first three, BadRequest for the fourth), so a wrong
\* currentPassword together with mismatching new passwords gives Unauthorized;
\* save is reached exactly when all four checks pass.
C14_CheckOrder ==
  [][\A u \in UserIds :
       (last'.op = "updatePassword" /\ last'.uid = u) =>
         LET dto == last'.arg
             absent == u \notin 1..Len(users)
             noPassword == ~absent /\ ~Truthy(users[u].password)
             wrong == /\ ~absent /\ ~noPassword
                      /\ ~BcryptCompare(dto.currentPassword, users[u].password)
             mismatch == dto.newPassword # dto.newPasswordConfirm
         IN  /\ absent => (last'.out = "Unauthorized" /\ last'.ret.why = "no user")
             /\ noPassword => (last'.out = "Unauthorized" /\ last'.ret.why = "no password")
             /\ wrong => (last'.out = "Unauthorized" /\ last'.ret.why = "wrong password")
             /\ (~absent /\ ~noPassword /\ ~wrong /\ mismatch) => last'.out = "BadRequest"
             /\ last'.saved <=> (~absent /\ ~noPassword /\ ~wrong /\ ~mismatch)
             /\ ~last'.saved => users' = users
    ]_vars

C14_Witness ==
  /\ last.op = "updatePassword"
  /\ last.out = "Unauthorized"
  /\ last.ret.why = "wrong password"
  /\ last.arg.newPassword # last.arg.newPasswordConfirm

\* C12: TTL lifecycle. Every record in the store has an expiry that lies in
\* the future and at most the configured TTL ahead; login, refreshToken and
\* updateHashedRefreshToken leave the slot with the full TTL, whatever was
\* left before; and when the clock reaches the expiry with no further write,
\* getHashedRefreshToken answers absent and validateRefreshToken fails with
\* Unauthorized for every token.
C12_TtlLifecycle ==
  /\ [](\A k \in RefreshKeys :
          redis[k] # Null =>
            (now < redis[k].exp /\ redis[k].exp <= now + RefreshExpireSeconds))
  /\ [](\A u \in UserIds :
          (/\ last.uid = u
           /\ last.op \in {"login", "refreshToken", "updateHashedRefreshToken"})
          => /\ redis[getRefreshTokenKey(u)] # Null
             /\ redis[getRefreshTokenKey(u)].exp = now + RefreshExpireSeconds)
  /\ [][\A u \in UserIds :
          (/\ redis[getRefreshTokenKey(u)] # Null
           /\ last'.op = "tick"
           /\ redis[getRefreshTokenKey(u)].exp <= now')
          => /\ Get(redis', getRefreshTokenKey(u)) = Null
             /\ \A r \in RefreshTokenArgs(u) : ValidateAfter(u, r).out = "Unauthorized"
       ]_vars

C12_Witness ==
  /\ last.op = "tick"
  /\ now = RefreshExpireSeconds
  /\ \E u \in UserIds :
       /\ issued[u] = {0}
       /\ getHashedRefreshToken(u) = Null
       /\ ValidateRefreshTokenResult(u, CurrentToken(u)).out = "Unauthorized"

\* C15: login and refreshToken check nothing. In every state, whatever the
\* session and whether or not the user id is in the user table, login(u) and
\* refreshToken(u) can be taken and succeed; afterwards the slot of u holds a
\* digest of exactly the refresh token they returned, which therefore passes
\* validateRefreshToken, also when refreshToken(u) directly follows logout(u).
\* login returns {id, accessToken, refreshToken}, refreshToken returns
\* {accessToken, refreshToken}.
C15_NoPriorCheck ==
  /\ [](\A u \in UserIds : ENABLED login(u) /\ ENABLED refreshToken(u))
  /\ [](\A u \in UserIds :
          (last.uid = u /\ last.op \in {"login", "refreshToken"}) =>
            /\ last.out = "ok"
            /\ Argon2Verify(getHashedRefreshToken(u), last.ret.refreshToken)
            /\ last.ret.refreshToken = CurrentToken(u)
            /\ ValidateRefreshTokenResult(u, last.ret.refreshToken)
                 = [out |-> "ok", ret |-> [id |-> u]]
            /\ DOMAIN last.ret =
                 IF last.op = "login" THEN {"id", "accessToken", "refreshToken"}
                 ELSE {"accessToken", "refreshToken"}
            /\ last.op = "login" => last.ret.id = u)
  /\ [][\A u \in UserIds :
          (/\ last.op = "logout" /\ last.uid = u
           /\ last'.op = "refreshToken" /\ last'.uid = u)
          => /\ last'.out = "ok"
             /\ ValidateAfter(u, last'.ret.refreshToken).out = "ok"
       ]_vars

C15_Witness ==
  /\ last.op = "refreshToken"
  /\ findOneById(last.uid) = Null
  /\ issued[last.uid] = {now}
  /\ ValidateRefreshTokenResult(last.uid, last.ret.refreshToken).out = "ok"

\* C16: frame of the refresh store. generateTokens, getHashedRefreshToken,
\* validateRefreshToken, validateLocalUser, validateOAuthUser and
\* updatePassword leave every slot as it is, so a successful updatePassword
\* leaves the refresh token of the user valid and a successful
\* validateRefreshToken leaves its token valid; a slot changes only in a
\* login, refreshToken, updateHashedRefreshToken or logout of its user, or
\* when its expiry comes.
C16_RefreshStoreFrame ==
  [][/\ last'.op \in {"generateTokens", "getHashedRefreshToken",
                      "validateRefreshToken", "validateLocalUser",
                      "validateOAuthUser", "updatePassword"}
        => /\ redis' = redis
           /\ \A u \in UserIds : \A r \in RefreshTokenArgs(u) :
                ValidateAfter(u, r) = ValidateRefreshTokenResult(u, r)
     /\ \A u \in UserIds :
          redis'[getRefreshTokenKey(u)] # redis[getRefreshTokenKey(u)]
          => \/ /\ last'.uid = u
                /\ last'.op \in {"login", "refreshToken",
                                 "updateHashedRefreshToken", "logout"}
             \/ /\ last'.op = "tick"
                /\ redis[getRefreshTokenKey(u)].exp <= now'
                /\ redis'[getRefreshTokenKey(u)] = Null
    ]_vars

C16_Witness ==
  /\ last.op = "updatePassword"
  /\ last.out = "ok"
  /\ issued[last.uid] # {}
  /\ ValidateRefreshTokenResult(last.uid, CurrentToken(last.uid)).out = "ok"

\* a step of a session operation of u leaves the slot of every other user
\* as it is
OtherSlotsKept ==
  last'.op \in {"login", "refreshToken", "updateHashedRefreshToken", "logout"}
  => \A v \in UserIds \ {last'.uid} :
       redis'[getRefreshTokenKey(v)] = redis[getRefreshTokenKey(v)]

\* a refresh token returned to u passes validateRefreshToken(v, .), v # u
CrossValid(u, v) ==
  \E r \in IssuedTokens(u) : ValidateRefreshTokenResult(v, r).out = "ok"

\* C20 as stated: the session operations of u leave the slot of every other
\* user unchanged, and a refresh token returned to u never passes
\* validateRefreshToken(v, .) for v # u.
C20_PerUserIsolation_AsClaimed ==
  /\ [][OtherSlotsKept]_vars
  /\ [](\A u \in UserIds : \A v \in UserIds \ {u} : ~CrossValid(u, v))

\* C20 (amended): the keys of distinct users differ and the session
\* operations of u leave the slot of every other user unchanged; a refresh
\* token returned to u passes validateRefreshToken(v, .), v # u, only while
\* the slot of v holds a digest of that token, and that comes to be only in a
\* step updateHashedRefreshToken(v, h) with h a digest of it: login,
\* refreshToken and logout never bring it about.
C20_PerUserIsolation ==
  /\ [](\A u \in UserIds : \A v \in UserIds \ {u} :
          /\ getRefreshTokenKey(u) # getRefreshTokenKey(v)
          /\ \A r \in IssuedTokens(u) :
               ValidateRefreshTokenResult(v, r).out = "ok"
               => /\ redis[getRefreshTokenKey(v)] # Null
                  /\ redis[getRefreshTokenKey(v)].val.alg = "argon2"
                  /\ redis[getRefreshTokenKey(v)].val.plain = r)
  /\ [][/\ OtherSlotsKept
        /\ \A u \in UserIds : \A v \in UserIds \ {u} :
             \A r \in IssuedTokens(u)' :
               (/\ ValidateAfter(v, r).out = "ok"
                /\ VerifyStored(Get(redis, getRefreshTokenKey(v)), v, r).out # "ok")
               => /\ last'.op = "updateHashedRefreshToken"
                  /\ last'.uid = v
                  /\ last'.arg.alg = "argon2"
                  /\ last'.arg.plain = r
    ]_vars

\* login(1) with user 2 holding a session that stays as it was and that the
\* new token of user 1 does not open
C20_Witness ==
  /\ last.op = "login"
  /\ last.uid = 1
  /\ redis[getRefreshTokenKey(2)] # Null
  /\ redis[getRefreshTokenKey(2)].val.plain = CurrentToken(2)
  /\ ValidateRefreshTokenResult(2, last.ret.refreshToken).out = "Unauthorized"
  /\ ValidateRefreshTokenResult(1, last.ret.refreshToken).out = "ok"

\* ---- calls that interleave ----------------------------------------------
\* the calls p and q last made ran at the same time
Overlap(p, q) == req[p].conc = req[q].id \/ req[q].conc = req[p].id

\* p has completed a login or a refreshToken that returned a pair
IssuedOk(p) ==
  /\ req[p].op \in {"login", "refreshToken"}
  /\ req[p].pc = "done"
  /\ req[p].out = "ok"

\* C11: last writer wins. When two login/refreshToken calls for the same
\* user ran concurrently and both completed, the slot holds the hash written
\* by the put that landed last (and no other value), and exactly one of the
\* two returned refresh tokens passes validateRefreshToken, the other fails
\* with Unauthorized.
C11_LastWriterWins ==
  \A p \in Procs : \A q \in Procs \ {p} :
    (/\ IssuedOk(p) /\ IssuedOk(q)
     /\ req[p].uid = req[q].uid
     /\ Overlap(p, q)
     /\ chist[req[p].uid].kind = "put"
     /\ chist[req[p].uid].writer = req[p].id
     /\ redis[getRefreshTokenKey(req[p].uid)] # Null)
    => /\ redis[getRefreshTokenKey(req[p].uid)].val = req[p].hash
       /\ redis[getRefreshTokenKey(req[p].uid)].val \in {req[p].hash, req[q].hash}
       /\ ValidateRefreshTokenResult(req[p].uid, req[p].ret.refreshToken).out = "ok"
       /\ ValidateRefreshTokenResult(req[p].uid, req[q].ret.refreshToken).out
            = "Unauthorized"

RotatedOk(p) ==
  /\ req[p].op = "rotation"
  /\ req[p].pc = "done"
  /\ req[p].out = "ok"
  /\ req[p].ret # Null

\* two rotation requests that ran at the same time, presented the same
\* refresh token and both got a new pair, the two pairs being different
DoubleRotation(p, q) ==
  /\ RotatedOk(p) /\ RotatedOk(q)
  /\ req[p].uid = req[q].uid
  /\ req[p].arg = req[q].arg
  /\ Overlap(p, q)
  /\ req[p].ret.refreshToken # req[q].ret.refreshToken

\* C17 as stated: in every interleaving of concurrent rotation requests
\* (validateRefreshToken(u, r), then refreshToken(u)) of one user, a refresh
\* token r authorises at most one rotation.
C17_SingleUse_AsClaimed ==
  \A p \in Procs : \A q \in Procs \ {p} : ~DoubleRotation(p, q)

\* C17 (amended): a rotation request presenting r passes validation exactly
\* when the slot holds a digest of r at the moment the request reads it, and
\* only a request that passed goes on to refreshToken; the read and the later
\* put are separate steps, so every request that reads before the put of
\* another token lands is authorised by r, and none that reads after it.
C17_SingleUse ==
  /\ [][\A p \in Procs :
          (req[p].pc = "validate" /\ req'[p] # req[p])
          => /\ redis' = redis
             /\ req'[p].pc = "sign"
                <=> /\ redis[getRefreshTokenKey(req[p].uid)] # Null
                    /\ Argon2Verify(redis[getRefreshTokenKey(req[p].uid)].val,
                                    req[p].arg)
             /\ req'[p].pc # "sign"
                => /\ req'[p].pc = "done"
                   /\ req'[p].out \in {"Unauthorized", "TypeError"}
                   /\ req'[p].ret = Null
    ]_vars
  /\ [](\A p \in Procs :
          (req[p].op = "rotation" /\ req[p].ret # Null) => RotatedOk(p))

\* both of two concurrent rotation requests with the same token were let
\* through and hold different new pairs
C17_Witness ==
  \E p \in Procs : \E q \in Procs \ {p} : DoubleRotation(p, q)

\* p has completed a logout that ran at the same time as the login or
\* refreshToken q has completed, q having been invoked first; p and q made no
\* call since
LogoutRace(p, q) ==
  /\ req[p].op = "logout" /\ req[p].pc = "done"
  /\ req[q].op \in {"login", "refreshToken"} /\ req[q].pc = "done"
  /\ req[p].uid = req[q].uid
  /\ req[p].conc = req[q].id

\* C18 as stated: when logout(u) ran concurrently with a login(u) or
\* refreshToken(u) invoked before it, and none was invoked after it returned,
\* then once all have completed the slot of u is absent and no refresh token
\* of u passes validateRefreshToken.
C18_LogoutFinal_AsClaimed ==
  \A p \in Procs : \A q \in Procs \ {p} :
    LogoutRace(p, q) => NoSession(req[p].uid)

\* C18 (amended): the slot reflects the write that landed last. After such a
\* race the slot of u is absent and no refresh token of u passes if the
\* delete of logout landed after the put of the concurrent call (or that call
\* failed); if the put landed after the delete, the slot holds the hash of
\* that call and the refresh token it returned passes, until the next logout
\* or the expiry.
C18_LogoutFinal ==
  /\ \A u \in UserIds :
       /\ chist[u].kind = "del" => NoSession(u)
       /\ redis[getRefreshTokenKey(u)] # Null => chist[u].kind = "put"
  /\ \A p \in Procs : \A q \in Procs \ {p} :
       LogoutRace(p, q)
       => /\ (chist[req[p].uid].writer = req[p].id \/ req[q].out # "ok")
             => NoSession(req[p].uid)
          /\ (/\ chist[req[p].uid].writer = req[q].id
              /\ redis[getRefreshTokenKey(req[p].uid)] # Null)
             => /\ req[q].out = "ok"
                /\ redis[getRefreshTokenKey(req[p].uid)].val = req[q].hash
                /\ ValidateRefreshTokenResult(req[q].uid,
                                              req[q].ret.refreshToken).out = "ok"

\* the race in which the put landed first and the delete last: the pair was
\* returned and the slot is absent
C18_Witness ==
  \E p \in Procs : \E q \in Procs \ {p} :
    /\ LogoutRace(p, q)
    /\ req[q].out = "ok"
    /\ chist[req[p].uid] = [writer |-> req[p].id, kind |-> "del"]
    /\ NoSession(req[p].uid)

\* C19: no duplicate identity under interleaving. validateOAuthUser looks up
\* by email and creates in two steps; after two concurrent calls with the
\* same email at most one row has that email and both calls have returned
\* the same id.
C19_NoDuplicateIdentity ==
  /\ \A e \in Emails : Cardinality(RowsWithEmail(e)) <= 1
  /\ \A p \in Procs : \A q \in Procs \ {p} :
       (/\ req[p].op = "validateOAuthUser" /\ req[p].pc = "done"
        /\ req[q].op = "validateOAuthUser" /\ req[q].pc = "done"
        /\ req[p].arg.email = req[q].arg.email
        /\ Overlap(p, q))
       => /\ req[p].out = "ok"
          /\ req[q].out = "ok"
          /\ req[p].ret.id = req[q].ret.id
====
